---- MODULE Spec2Model ----
(***************************************************************************)
(* Model of the preschool reading AI repository:                           *)
(*   database.py             LearningDatabase, a data-access object over   *)
(*                           five SQLite tables                            *)
(*   config.py               static lookup tables and their three lookups  *)
(*   preschool_voice_agent.py  module start-up, the function tools, the    *)
(*                           voice record/playback loop and the menu       *)
(***************************************************************************)
EXTENDS Integers, Sequences, FiniteSets, TLC

VARIABLES
    student_profiles,    \* table student_profiles, rows in rowid order
    learning_sessions,   \* table learning_sessions
    lesson_plans,        \* table lesson_plans
    accomplishments,     \* table accomplishments
    learning_analytics,  \* table learning_analytics
    now,                 \* the clock second CURRENT_TIMESTAMP reads
    calls,               \* number of LearningDatabase calls made so far
    call_budget,         \* number of calls this run of the program makes
    schema,              \* names of the tables that exist in the database file
    open_conns,          \* connections opened and not closed
    tx_tables,           \* tables written by the transactions of the last call
    result,              \* outcome of the last call
    child_profile,       \* last get_child_profile lookup
    sight_words,         \* last get_appropriate_sight_words lookup
    next_sound,          \* last get_next_phonics_sound lookup
    walk,                \* the sounds a practice run has been through: where it
                         \* started, then each get_next_phonics_sound result
    v_pc,                \* where run_voice_example is
    samplerate,          \* its sample rate
    turns,               \* completed passes of its loop
    stream_open,         \* the input stream is open (callbacks may arrive)
    recorded_chunks,     \* the list the audio callback fills
    accesses,            \* who touched recorded_chunks, and whether the
                         \* stream was open at that moment
    printed,             \* the last line printed to the console
    v_error,             \* the last exception raised in this pass
    installed,           \* packages that can be imported
    env_key,             \* OPENAI_API_KEY in the process environment
    dotenv_key,          \* OPENAI_API_KEY in the .env file
    s_pc,                \* where module start-up is
    s_out,               \* what start-up has printed
    exit_status,         \* exit status of the process, -1 while it runs
    agents_built,        \* the Agent objects have been constructed
    menu_shown,          \* main() has printed the menu
    m_pc,                \* where main() is after the menu
    typed,               \* the line typed at the menu prompt
    choice,              \* main's choice: that line, stripped
    voice_typed,         \* the line typed at the voice-mode prompt
    voice_choice,        \* main's voice_choice: that line, lowered
    running,             \* the coroutine main() is awaiting, or NoStage
    stage_log,           \* the stages' starts and ends, in order
    thanked              \* the closing message has been printed

dbvars == <<student_profiles, learning_sessions, lesson_plans, accomplishments,
            learning_analytics, now, calls, open_conns, tx_tables, result,
            call_budget, schema>>

cfgvars == <<child_profile, sight_words, next_sound, walk>>

voicevars == <<v_pc, samplerate, turns, stream_open, recorded_chunks, accesses,
               printed, v_error>>

startvars == <<installed, env_key, dotenv_key, s_pc, s_out, exit_status,
               agents_built, menu_shown>>

menuvars == <<m_pc, typed, choice, voice_typed, voice_choice, running,
              stage_log, thanked>>

vars == <<dbvars, cfgvars, voicevars, startvars, menuvars>>

\* what a step of one part of the program leaves alone
DbFrame == UNCHANGED <<call_budget, schema, cfgvars, voicevars, startvars, menuvars>>
CfgFrame == UNCHANGED <<dbvars, voicevars, startvars, menuvars>>
VoiceFrame == UNCHANGED <<dbvars, cfgvars, startvars, menuvars>>
StartFrame == UNCHANGED <<dbvars, cfgvars, voicevars, menuvars>>
MenuFrame == UNCHANGED <<dbvars, cfgvars, voicevars, startvars>>

----------------------------------------------------------------------------
(* Bounds of the model *)

MaxCalls == 3
MaxPlanCalls == 5
MaxProfileCalls == 4
MaxClock == 1
MaxTurns == 2
MaxChunks == 2
ExtraSteps == 2

----------------------------------------------------------------------------
(* Python values.  A value is a record [t, v]: t is the Python type and v  *)
(* holds the content as a sequence: the characters (tokens) of a str, the  *)
(* items of a list, the single number of an int.                           *)

PyInt(n) == [t |-> "int", v |-> <<n>>]
PyStr(toks) == [t |-> "str", v |-> toks]
PyList(items) == [t |-> "list", v |-> items]
PyNone == [t |-> "none", v |-> <<>>]

\* Python truthiness of a value: None, '' and [] and 0 are false
Truthy(x) ==
    CASE x.t = "none" -> FALSE
      [] x.t = "int" -> x.v[1] # 0
      [] OTHER -> x.v # <<>>

\* the Python types the sqlite3 module binds to a statement parameter
Bindable(x) == x.t \in {"none", "int", "str"}

----------------------------------------------------------------------------
(* json.dumps and json.loads on the values the program stores: a list of   *)
(* strings becomes the text  ["a", "b"]  , token by token, and back.       *)

Quote(s) == <<"\"", s, "\"">>

RECURSIVE JoinItems(_)
JoinItems(items) ==
    IF items = <<>> THEN <<>>
    ELSE IF Len(items) = 1 THEN Quote(items[1])
    ELSE Quote(items[1]) \o <<", ">> \o JoinItems(Tail(items))

json_dumps(x) ==
    CASE x.t = "list" -> PyStr(<<"[">> \o JoinItems(x.v) \o <<"]">>)
      [] x.t = "str" -> PyStr(<<"\"">> \o x.v \o <<"\"">>)
      [] OTHER -> PyStr(<<"null">>)

RECURSIVE ParseItems(_)
ParseItems(toks) ==
    IF Len(toks) < 3 THEN <<>>
    ELSE <<toks[2]>> \o
         ParseItems(IF Len(toks) > 3 /\ toks[4] = ", "
                    THEN SubSeq(toks, 5, Len(toks))
                    ELSE SubSeq(toks, 4, Len(toks)))

json_loads(x) ==
    LET toks == x.v IN
    CASE toks[1] = "[" -> PyList(ParseItems(SubSeq(toks, 2, Len(toks) - 1)))
      [] toks[1] = "\"" -> PyStr(SubSeq(toks, 2, Len(toks) - 1))
      [] OTHER -> PyNone

\* the idiom  json.loads(col) if col else []
LoadsOrEmpty(col) == IF Truthy(col) THEN json_loads(col) ELSE PyList(<<>>)

----------------------------------------------------------------------------
(* The inputs the calls are made with *)

Students == {"Emma", "Zoe"}

\* ratings a caller passes: one inside the 1-5 scale, one below, one above
Ratings == {0, 3, 6}

\* status strings a caller passes to update_lesson_plan_status
StatusArgs == {"in_progress", "completed", "done"}

DemoTopic == "phonics"
DemoAgent == "Tester"
DemoNotes == "said b clearly"
DemoAchievement == "knows letter b"
SkillCategories == {"alphabet"}
DemoObjective == "letter sounds"
DemoSteps == <<"assess", "practice">>
DemoSkills == <<"letter recognition">>
ReviewSteps == <<"practice", "assess">>
StepLists == {DemoSteps, ReviewSteps}
DemoPlanNotes == "likes animals"

\* the dicts update_student_profile is called with (Dict[str, Any])
UpdateArgs ==
    { [age |-> PyInt(5), interests |-> PyList(<<"animals">>)],
      [age |-> PyInt(5), preferred_teaching_style |-> PyStr(<<"stories">>)],
      [effective_strategies |-> PyList(<<"songs">>)],
      [age |-> PyList(<<"4">>)] }

\* further dicts for runs of the profile operations alone: values of another
\* type than the column's, other profile and analytics keys, a list given as
\* the teaching style, and a key that update_student_profile does not know
MoreUpdateArgs ==
    { [age |-> PyStr(<<"5">>), learning_style |-> PyInt(3)],
      [learning_style |-> PyStr(<<"auditory">>),
       current_level |-> PyStr(<<"reader">>)],
      [challenging_areas |-> PyList(<<"b and d">>),
       motivation_triggers |-> PyList(<<>>)],
      [preferred_teaching_style |-> PyList(<<"songs">>)],
      [favorite_color |-> PyStr(<<"red">>)] }

----------------------------------------------------------------------------
(* Table rows.  AUTOINCREMENT ids: no row is ever deleted, so the next id  *)
(* is the number of rows plus one.                                         *)

NextId(tbl) == Len(tbl) + 1

DefaultInterests == json_dumps(PyList(<<"learning", "stories">>))

\* a default row without the two default interests
DefaultProfileRowNoInterests(tbl, name, ts) ==
    [id |-> NextId(tbl), name |-> name, age |-> PyInt(4),
     interests |-> json_dumps(PyList(<<>>)), learning_style |-> PyStr(<<"visual">>),
     current_level |-> PyStr(<<"beginner">>), created_at |-> ts, updated_at |-> ts]

DefaultProfileRow(tbl, name, ts) ==
    [id |-> NextId(tbl), name |-> name, age |-> PyInt(4),
     interests |-> DefaultInterests, learning_style |-> PyStr(<<"visual">>),
     current_level |-> PyStr(<<"beginner">>), created_at |-> ts, updated_at |-> ts]

\* SELECT * FROM <table> WHERE <column> = name
RowsOf(tbl, name) == SelectSeq(tbl, LAMBDA r : r.student_name = name)
ProfileRows(tbl, name) == SelectSeq(tbl, LAMBDA r : r.name = name)

\* The orders an  ORDER BY key DESC  may return rows in, given the rows'
\* keys: every arrangement with keys descending (rows of equal key come in
\* any order).
Orderings(keys) ==
    { p \in Permutations(DOMAIN keys) :
        \A i \in DOMAIN keys : \A j \in DOMAIN keys :
            i < j => keys[p[i]] >= keys[p[j]] }

Arrange(rows, p, limit) ==
    [i \in 1..(IF Len(rows) < limit THEN Len(rows) ELSE limit) |-> rows[p[i]]]

RecentLimit == 5
SessionLimit == 10

----------------------------------------------------------------------------
(* get_student_profile *)

\* variant: inserts the default row without looking the name up first
ProfilesAfterGetNoLookup(tbl, name, ts) ==
    Append(tbl, DefaultProfileRow(tbl, name, ts))

\* the profile table after the call: the default row is inserted when the
\* SELECT finds no row for the name (the UNIQUE name column then accepts it)
ProfilesAfterGet(tbl, name, ts) ==
    IF ProfileRows(tbl, name) = <<>>
    THEN Append(tbl, DefaultProfileRow(tbl, name, ts))
    ELSE tbl

\* the dict built from the profile row, or default_profile on creation
ProfileData(tbl, name) ==
    IF ProfileRows(tbl, name) = <<>>
    THEN [name |-> name, age |-> PyInt(4), interests |-> DefaultInterests,
          learning_style |-> PyStr(<<"visual">>),
          current_level |-> PyStr(<<"beginner">>)]
    ELSE LET profile == ProfileRows(tbl, name)[1] IN
         [name |-> profile.name, age |-> profile.age,
          interests |-> LoadsOrEmpty(profile.interests),
          learning_style |-> profile.learning_style,
          current_level |-> profile.current_level]

AnalyticsData(name, p) ==
    LET rows == RowsOf(learning_analytics, name) IN
    IF rows = <<>> THEN <<>>
    ELSE LET analytics == rows[p[1]] IN
         [preferred_teaching_style |-> analytics.preferred_teaching_style,
          effective_strategies |-> LoadsOrEmpty(analytics.effective_strategies),
          challenging_areas |-> LoadsOrEmpty(analytics.challenging_areas),
          motivation_triggers |-> LoadsOrEmpty(analytics.motivation_triggers)]

RecentAccomplishments(name, q) ==
    LET rows == RowsOf(accomplishments, name)
        top == Arrange(rows, q, RecentLimit) IN
    [i \in DOMAIN top |->
        [achievement |-> top[i].achievement,
         skill_category |-> top[i].skill_category,
         date |-> top[i].date_achieved,
         confidence |-> top[i].confidence_level]]

\* the returned dict; p and q are the orders the two ORDER BY queries gave
StudentProfileResult(name, p, q) ==
    [recent_accomplishments |-> RecentAccomplishments(name, q)]
        @@ AnalyticsData(name, p) @@ ProfileData(student_profiles, name)

AnalyticsOrders(name) ==
    LET rows == RowsOf(learning_analytics, name) IN
    Orderings([i \in DOMAIN rows |-> rows[i].updated_at])
AccomplishmentOrders(name) ==
    LET rows == RowsOf(accomplishments, name) IN
    Orderings([i \in DOMAIN rows |-> rows[i].date_achieved])

get_student_profile(name) ==
    /\ calls < call_budget
    /\ \E p \in AnalyticsOrders(name) : \E q \in AccomplishmentOrders(name) :
          result' = [op |-> "get_student_profile", student |-> name,
                     raised |-> FALSE,
                     value |-> StudentProfileResult(name, p, q)]
    /\ student_profiles' = ProfilesAfterGet(student_profiles, name, now)
    /\ tx_tables' = IF ProfileRows(student_profiles, name) = <<>>
                    THEN {"student_profiles"} ELSE {}
    /\ calls' = calls + 1
    /\ open_conns' = open_conns + 1 - 1
    /\ UNCHANGED <<learning_sessions, lesson_plans, accomplishments,
                   learning_analytics, now>>
    /\ DbFrame

(* update_student_profile *)

ProfileKeys == {"age", "interests", "learning_style", "current_level"}
AnalyticsKeys == {"preferred_teaching_style", "effective_strategies",
                  "challenging_areas", "motivation_triggers"}

HasAny(updates, keys) == (DOMAIN updates) \cap keys # {}

\* updates.get(key, default)
DictGet(updates, key, default) ==
    IF key \in DOMAIN updates THEN updates[key] ELSE default

\* cursor.execute raises when a value bound raw is of a type sqlite3 does
\* not bind; the interests and the three list fields go through json.dumps
ProfileUpdateRaises(updates) ==
    /\ HasAny(updates, ProfileKeys)
    /\ \E key \in {"age", "learning_style", "current_level"} \cap DOMAIN updates :
          ~Bindable(updates[key])

AnalyticsUpdateRaises(updates) ==
    /\ HasAny(updates, AnalyticsKeys)
    /\ "preferred_teaching_style" \in DOMAIN updates
    /\ ~Bindable(updates["preferred_teaching_style"])

\* SQLite column affinity: what a bound value is stored as.  An INTEGER
\* column turns a text that reads as a number into that number, a TEXT
\* column turns a number into its decimal text.
Numerals == <<"0", "1", "2", "3", "4", "5", "6", "7", "8", "9">>

IntegerAffinity(x) ==
    IF x.t = "str" /\ Len(x.v) = 1 /\ (\E n \in DOMAIN Numerals : Numerals[n] = x.v[1])
    THEN PyInt((CHOOSE n \in DOMAIN Numerals : Numerals[n] = x.v[1]) - 1)
    ELSE x

TextAffinity(x) ==
    IF x.t = "int" /\ x.v[1] \in 0..9 THEN PyStr(<<Numerals[x.v[1] + 1]>>) ELSE x

\* an UPDATE student_profiles without its WHERE clause: every row is set
ProfilesAfterUpdateEveryRow(tbl, name, updates, ts) ==
    IF ~HasAny(updates, ProfileKeys) THEN tbl
    ELSE [i \in DOMAIN tbl |->
            [tbl[i] EXCEPT
                !.age = IntegerAffinity(DictGet(updates, "age", @)),
                !.learning_style =
                    TextAffinity(DictGet(updates, "learning_style", @)),
                !.current_level =
                    TextAffinity(DictGet(updates, "current_level", @)),
                !.interests = IF "interests" \in DOMAIN updates
                              THEN json_dumps(updates["interests"]) ELSE @,
                !.updated_at = ts]]

\* UPDATE student_profiles SET ... WHERE name = ?
ProfilesAfterUpdate(tbl, name, updates, ts) ==
    IF ~HasAny(updates, ProfileKeys) THEN tbl
    ELSE [i \in DOMAIN tbl |->
            IF tbl[i].name # name THEN tbl[i]
            ELSE [tbl[i] EXCEPT
                    !.age = IntegerAffinity(DictGet(updates, "age", @)),
                    !.learning_style =
                        TextAffinity(DictGet(updates, "learning_style", @)),
                    !.current_level =
                        TextAffinity(DictGet(updates, "current_level", @)),
                    !.interests = IF "interests" \in DOMAIN updates
                                  THEN json_dumps(updates["interests"]) ELSE @,
                    !.updated_at = ts]]

\* an update that INSERTs into learning_analytics without looking for a row
AnalyticsAfterUpdateAlwaysInsert(tbl, name, updates, ts) ==
    IF ~HasAny(updates, AnalyticsKeys) THEN tbl
    ELSE Append(tbl,
            [id |-> NextId(tbl), student_name |-> name,
             preferred_teaching_style |->
                 TextAffinity(DictGet(updates, "preferred_teaching_style",
                                      PyStr(<<>>))),
             effective_strategies |->
                 json_dumps(DictGet(updates, "effective_strategies", PyList(<<>>))),
             challenging_areas |->
                 json_dumps(DictGet(updates, "challenging_areas", PyList(<<>>))),
             motivation_triggers |->
                 json_dumps(DictGet(updates, "motivation_triggers", PyList(<<>>))),
             updated_at |-> ts])

\* UPDATE learning_analytics ... WHERE student_name = ?  when a row exists,
\* INSERT INTO learning_analytics otherwise
AnalyticsAfterUpdate(tbl, name, updates, ts) ==
    IF ~HasAny(updates, AnalyticsKeys) THEN tbl
    ELSE IF RowsOf(tbl, name) # <<>>
    THEN [i \in DOMAIN tbl |->
            IF tbl[i].student_name # name THEN tbl[i]
            ELSE [tbl[i] EXCEPT
                    !.preferred_teaching_style =
                        TextAffinity(DictGet(updates, "preferred_teaching_style", @)),
                    !.effective_strategies =
                        IF "effective_strategies" \in DOMAIN updates
                        THEN json_dumps(updates["effective_strategies"]) ELSE @,
                    !.challenging_areas =
                        IF "challenging_areas" \in DOMAIN updates
                        THEN json_dumps(updates["challenging_areas"]) ELSE @,
                    !.motivation_triggers =
                        IF "motivation_triggers" \in DOMAIN updates
                        THEN json_dumps(updates["motivation_triggers"]) ELSE @,
                    !.updated_at = ts]]
    ELSE Append(tbl,
            [id |-> NextId(tbl), student_name |-> name,
             preferred_teaching_style |->
                 TextAffinity(DictGet(updates, "preferred_teaching_style",
                                      PyStr(<<>>))),
             effective_strategies |->
                 json_dumps(DictGet(updates, "effective_strategies", PyList(<<>>))),
             challenging_areas |->
                 json_dumps(DictGet(updates, "challenging_areas", PyList(<<>>))),
             motivation_triggers |->
                 json_dumps(DictGet(updates, "motivation_triggers", PyList(<<>>))),
             updated_at |-> ts])

\* the tables whose rows the one transaction of the call writes
UpdateWrites(name, updates) ==
    (IF HasAny(updates, ProfileKeys) /\ ProfileRows(student_profiles, name) # <<>>
     THEN {"student_profiles"} ELSE {})
    \cup (IF HasAny(updates, AnalyticsKeys) THEN {"learning_analytics"} ELSE {})

\* An exception leaves the function between connect() and commit()/close():
\* nothing is committed and the connection stays open until it is finalized.
update_student_profile(name, updates) ==
    /\ calls < call_budget
    /\ calls' = calls + 1
    /\ IF ProfileUpdateRaises(updates) \/ AnalyticsUpdateRaises(updates)
       THEN /\ result' = [op |-> "update_student_profile", student |-> name,
                          raised |-> TRUE, value |-> <<>>, args |-> updates]
            /\ open_conns' = open_conns + 1
            /\ tx_tables' = {}
            /\ UNCHANGED <<student_profiles, learning_analytics>>
       ELSE /\ result' = [op |-> "update_student_profile", student |-> name,
                          raised |-> FALSE, value |-> <<>>, args |-> updates]
            /\ student_profiles' =
                   ProfilesAfterUpdate(student_profiles, name, updates, now)
            /\ learning_analytics' =
                   AnalyticsAfterUpdate(learning_analytics, name, updates, now)
            /\ tx_tables' = UpdateWrites(name, updates)
            /\ open_conns' = open_conns + 1 - 1
    /\ UNCHANGED <<learning_sessions, lesson_plans, accomplishments, now>>
    /\ DbFrame

\* the function tool: db.update_student_profile(student_name, observations)
update_student_learning_data(student_name, learning_observations) ==
    update_student_profile(student_name, learning_observations)

\* a connection left open is closed when the interpreter finalizes it
finalize_connection ==
    /\ open_conns > 0
    /\ open_conns' = open_conns - 1
    /\ UNCHANGED <<student_profiles, learning_sessions, lesson_plans,
                   accomplishments, learning_analytics, now, calls, tx_tables,
                   result>>
    /\ DbFrame

----------------------------------------------------------------------------
(* add_learning_session, add_accomplishment and the tools that call them *)

\* a connection on which PRAGMA foreign_keys = ON was executed
ForeignKeysPragmaOn == TRUE

\* sqlite3.connect(self.db_path) and no PRAGMA: SQLite does not enforce the
\* FOREIGN KEY clauses of the schema on such a connection
ForeignKeysOn == FALSE

\* the INSERT of a child row fails when enforcement is on and the parent
\* row is missing
ForeignKeyViolation(student_name) ==
    ForeignKeysOn /\ ProfileRows(student_profiles, student_name) = <<>>

\* sqlite3.IntegrityError leaves the function before commit and close
IntegrityError(op, student_name) ==
    /\ tx_tables' = {}
    /\ open_conns' = open_conns + 1
    /\ result' = [op |-> op, student |-> student_name, raised |-> TRUE,
                  value |-> "IntegrityError"]

add_learning_session(student_name, lesson_topic, agent_used, conversation_summary, effectiveness, notes) ==
    /\ calls < call_budget
    /\ calls' = calls + 1
    /\ IF ForeignKeyViolation(student_name)
       THEN /\ IntegrityError("add_learning_session", student_name)
            /\ UNCHANGED learning_sessions
       ELSE /\ learning_sessions' = Append(learning_sessions,
                  [id |-> NextId(learning_sessions), student_name |-> student_name,
                   lesson_topic |-> lesson_topic, agent_used |-> agent_used,
                   conversation_summary |-> conversation_summary,
                   learning_effectiveness |-> effectiveness, notes |-> notes,
                   session_date |-> now])
            /\ tx_tables' = {"learning_sessions"}
            /\ open_conns' = open_conns + 1 - 1
            /\ result' = [op |-> "add_learning_session", student |-> student_name,
                          raised |-> FALSE, value |-> <<>>]
    /\ UNCHANGED <<student_profiles, lesson_plans, accomplishments,
                   learning_analytics, now>>
    /\ DbFrame

record_learning_session(student_name, lesson_topic, agent_used, effectiveness_rating, session_notes) ==
    add_learning_session(student_name, lesson_topic, agent_used,
                         session_notes, effectiveness_rating, "")

\* variant: also stamps the student's profile rows in the same transaction
add_accomplishment_touching_profile(student_name, achievement, skill_category, confidence_level) ==
    /\ calls < call_budget
    /\ calls' = calls + 1
    /\ accomplishments' = Append(accomplishments,
          [id |-> NextId(accomplishments), student_name |-> student_name,
           achievement |-> achievement, skill_category |-> skill_category,
           date_achieved |-> now, confidence_level |-> confidence_level])
    /\ student_profiles' =
          [i \in DOMAIN student_profiles |->
              IF student_profiles[i].name = student_name
              THEN [student_profiles[i] EXCEPT !.updated_at = now]
              ELSE student_profiles[i]]
    /\ tx_tables' = {"accomplishments"} \cup
                    (IF ProfileRows(student_profiles, student_name) # <<>>
                     THEN {"student_profiles"} ELSE {})
    /\ open_conns' = open_conns + 1 - 1
    /\ result' = [op |-> "add_accomplishment", student |-> student_name,
                  raised |-> FALSE, value |-> <<>>]
    /\ UNCHANGED <<learning_sessions, lesson_plans, learning_analytics, now>>
    /\ DbFrame

add_accomplishment(student_name, achievement, skill_category, confidence_level) ==
    /\ calls < call_budget
    /\ calls' = calls + 1
    /\ IF ForeignKeyViolation(student_name)
       THEN /\ IntegrityError("add_accomplishment", student_name)
            /\ UNCHANGED accomplishments
       ELSE /\ accomplishments' = Append(accomplishments,
                  [id |-> NextId(accomplishments), student_name |-> student_name,
                   achievement |-> achievement, skill_category |-> skill_category,
                   date_achieved |-> now, confidence_level |-> confidence_level])
            /\ tx_tables' = {"accomplishments"}
            /\ open_conns' = open_conns + 1 - 1
            /\ result' = [op |-> "add_accomplishment", student |-> student_name,
                          raised |-> FALSE, value |-> <<>>]
    /\ UNCHANGED <<student_profiles, learning_sessions, lesson_plans,
                   learning_analytics, now>>
    /\ DbFrame

add_student_accomplishment(student_name, achievement, skill_category, confidence_level) ==
    add_accomplishment(student_name, achievement, skill_category, confidence_level)

----------------------------------------------------------------------------
(* lesson plans *)

create_lesson_plan(student_name, learning_objective, lesson_steps, target_skills, personalization_notes) ==
    /\ calls < call_budget
    /\ calls' = calls + 1
    /\ IF ForeignKeyViolation(student_name)
       THEN /\ IntegrityError("create_lesson_plan", student_name)
            /\ UNCHANGED lesson_plans
       ELSE /\ lesson_plans' = Append(lesson_plans,
                  [id |-> NextId(lesson_plans), student_name |-> student_name,
                   learning_objective |-> learning_objective,
                   lesson_steps |-> json_dumps(PyList(lesson_steps)),
                   target_skills |-> json_dumps(PyList(target_skills)),
                   personalization_notes |-> personalization_notes,
                   created_at |-> now, status |-> "pending"])
            /\ tx_tables' = {"lesson_plans"}
            /\ open_conns' = open_conns + 1 - 1
            /\ result' = [op |-> "create_lesson_plan", student |-> student_name,
                          raised |-> FALSE, value |-> NextId(lesson_plans),
                          args |-> [learning_objective |-> learning_objective,
                                    lesson_steps |-> lesson_steps,
                                    target_skills |-> target_skills,
                                    personalization_notes |-> personalization_notes]]
    /\ UNCHANGED <<student_profiles, learning_sessions, accomplishments,
                   learning_analytics, now>>
    /\ DbFrame

ActivePlans(student_name) ==
    SelectSeq(lesson_plans,
              LAMBDA r : r.student_name = student_name
                         /\ r.status \in {"pending", "in_progress"})

PlanDict(plan) ==
    [id |-> plan.id, student_name |-> plan.student_name,
     learning_objective |-> plan.learning_objective,
     lesson_steps |-> json_loads(plan.lesson_steps),
     target_skills |-> json_loads(plan.target_skills),
     personalization_notes |-> plan.personalization_notes,
     created_at |-> plan.created_at, status |-> plan.status]

get_current_lesson_plan(student_name) ==
    /\ calls < call_budget
    /\ calls' = calls + 1
    /\ LET rows == ActivePlans(student_name) IN
       \E p \in Orderings([i \in DOMAIN rows |-> rows[i].created_at]) :
          result' = [op |-> "get_current_lesson_plan", student |-> student_name,
                     raised |-> FALSE,
                     value |-> IF rows = <<>> THEN PyNone
                               ELSE PlanDict(rows[p[1]])]
    /\ tx_tables' = {}
    /\ open_conns' = open_conns + 1 - 1
    /\ UNCHANGED <<student_profiles, learning_sessions, lesson_plans,
                   accomplishments, learning_analytics, now>>
    /\ DbFrame

\* the dict the get_current_lesson_plan tool returns when the database has
\* no active plan
DefaultLessonPlan(student_name) ==
    [message |-> <<"No active lesson plan found for ", student_name>>,
     learning_objective |-> "Alphabet recognition and letter sounds",
     lesson_steps |-> PyList(<<"Assess current knowledge", "Introduce new letters",
                               "Practice sounds", "Review and reinforce">>),
     target_skills |-> PyList(<<"letter recognition", "phonemic awareness">>),
     personalization_notes |-> "Create lesson plan using lesson planner"]

\* a tool that hands on whatever the database returned
PlanOrNone(plan, student_name) == plan

\* if plan: return plan, else the default dict (None is falsy, a row's dict
\* has eight keys and is truthy)
PlanOrDefault(plan, student_name) ==
    IF plan # PyNone THEN plan ELSE DefaultLessonPlan(student_name)

\* the function tool get_current_lesson_plan of preschool_voice_agent.py
get_current_lesson_plan_tool(student_name) ==
    /\ calls < call_budget
    /\ calls' = calls + 1
    /\ LET rows == ActivePlans(student_name) IN
       \E p \in Orderings([i \in DOMAIN rows |-> rows[i].created_at]) :
          LET plan == IF rows = <<>> THEN PyNone ELSE PlanDict(rows[p[1]]) IN
          result' = [op |-> "get_current_lesson_plan_tool",
                     student |-> student_name, raised |-> FALSE,
                     value |-> PlanOrDefault(plan, student_name)]
    /\ tx_tables' = {}
    /\ open_conns' = open_conns + 1 - 1
    /\ UNCHANGED <<student_profiles, learning_sessions, lesson_plans,
                   accomplishments, learning_analytics, now>>
    /\ DbFrame

\* UPDATE lesson_plans SET status = ? WHERE id = ?
PlansAfterStatus(tbl, plan_id, status) ==
    [i \in DOMAIN tbl |->
        IF tbl[i].id = plan_id THEN [tbl[i] EXCEPT !.status = status] ELSE tbl[i]]

update_lesson_plan_status(plan_id, status) ==
    /\ calls < call_budget
    /\ calls' = calls + 1
    /\ lesson_plans' = PlansAfterStatus(lesson_plans, plan_id, status)
    /\ tx_tables' = IF \E i \in DOMAIN lesson_plans : lesson_plans[i].id = plan_id
                    THEN {"lesson_plans"} ELSE {}
    /\ open_conns' = open_conns + 1 - 1
    /\ result' = [op |-> "update_lesson_plan_status", student |-> "",
                  raised |-> FALSE, value |-> <<>>,
                  args |-> [plan_id |-> plan_id, status |-> status]]
    /\ UNCHANGED <<student_profiles, learning_sessions, accomplishments,
                   learning_analytics, now>>
    /\ DbFrame

----------------------------------------------------------------------------
(* get_parent_dashboard *)

RECURSIVE SumConfidence(_)
SumConfidence(rows) ==
    IF rows = <<>> THEN 0
    ELSE rows[1].confidence_level + SumConfidence(Tail(rows))

\* round(AVG(confidence_level), 1) if the average is not 0, else 0; in tenths,
\* rounding half to even as Python's round does
AverageConfidence(rows) ==
    LET total == 10 * SumConfidence(rows)
        n == Len(rows)
        q == total \div n
        r == total % n IN
    IF total = 0 THEN 0
    ELSE IF 2 * r < n THEN q
    ELSE IF 2 * r > n THEN q + 1
    ELSE IF q % 2 = 0 THEN q ELSE q + 1

\* SELECT skill_category, COUNT(*), AVG(confidence_level) ... GROUP BY
SkillProgress(student_name) ==
    LET rows == RowsOf(accomplishments, student_name)
        cats == {rows[i].skill_category : i \in DOMAIN rows} IN
    { [category |-> c,
       achievements_count |->
           Len(SelectSeq(rows, LAMBDA r : r.skill_category = c)),
       average_confidence |->
           AverageConfidence(SelectSeq(rows, LAMBDA r : r.skill_category = c))]
      : c \in cats }

RecentSessions(student_name, o) ==
    LET rows == RowsOf(learning_sessions, student_name)
        top == Arrange(rows, o, SessionLimit) IN
    [i \in DOMAIN top |->
        [topic |-> top[i].lesson_topic, agent |-> top[i].agent_used,
         effectiveness |-> top[i].learning_effectiveness,
         date |-> top[i].session_date, notes |-> top[i].notes]]

SessionOrders(student_name) ==
    LET rows == RowsOf(learning_sessions, student_name) IN
    Orderings([i \in DOMAIN rows |-> rows[i].session_date])

\* The dashboard opens its own connection, then get_student_profile opens,
\* commits and closes a second one; the dashboard's own queries only read.
get_parent_dashboard(student_name) ==
    /\ calls < call_budget
    /\ calls' = calls + 1
    /\ \E p \in AnalyticsOrders(student_name) :
       \E q \in AccomplishmentOrders(student_name) :
       \E o \in SessionOrders(student_name) :
          result' = [op |-> "get_parent_dashboard", student |-> student_name,
                     raised |-> FALSE,
                     value |-> [student_name |-> student_name,
                                profile |-> StudentProfileResult(student_name, p, q),
                                recent_sessions |-> RecentSessions(student_name, o),
                                skill_progress |-> SkillProgress(student_name)]]
    /\ student_profiles' = ProfilesAfterGet(student_profiles, student_name, now)
    /\ tx_tables' = IF ProfileRows(student_profiles, student_name) = <<>>
                    THEN {"student_profiles"} ELSE {}
    /\ open_conns' = open_conns + 1 + 1 - 1 - 1
    /\ UNCHANGED <<learning_sessions, lesson_plans, accomplishments,
                   learning_analytics, now>>
    /\ DbFrame

----------------------------------------------------------------------------
(* init_database: the constructor of LearningDatabase *)

TableNames == {"student_profiles", "learning_sessions", "lesson_plans",
               "accomplishments", "learning_analytics"}

\* a CREATE TABLE that replaces an existing table (DROP TABLE, then CREATE)
CreateTableReplacing(name, rows) == <<>>

\* CREATE TABLE IF NOT EXISTS <name>: the rows the table has afterwards
CreateIfNotExists(name, rows) == IF name \in schema THEN rows ELSE <<>>

\* the five CREATE TABLE IF NOT EXISTS statements, commit, close
init_database ==
    /\ student_profiles' = CreateIfNotExists("student_profiles", student_profiles)
    /\ learning_sessions' = CreateIfNotExists("learning_sessions", learning_sessions)
    /\ lesson_plans' = CreateIfNotExists("lesson_plans", lesson_plans)
    /\ accomplishments' = CreateIfNotExists("accomplishments", accomplishments)
    /\ learning_analytics' = CreateIfNotExists("learning_analytics", learning_analytics)
    /\ schema' = schema \cup TableNames

\* the state once db = LearningDatabase() has run on a new file
NewDatabase ==
    /\ schema = TableNames
    /\ student_profiles = <<>>
    /\ learning_sessions = <<>>
    /\ lesson_plans = <<>>
    /\ accomplishments = <<>>
    /\ learning_analytics = <<>>
    /\ now = 0
    /\ calls = 0
    /\ open_conns = 0
    /\ tx_tables = {}
    /\ result = [op |-> "init_database", student |-> "", raised |-> FALSE,
                 value |-> <<>>]

DbInit == NewDatabase /\ call_budget = MaxCalls

Tick ==
    /\ now < MaxClock
    /\ now' = now + 1
    /\ UNCHANGED <<student_profiles, learning_sessions, lesson_plans,
                   accomplishments, learning_analytics, calls, open_conns,
                   tx_tables, result>>
    /\ DbFrame

Next ==
    \/ \E name \in Students : get_student_profile(name)
    \/ \E name \in Students : \E updates \in UpdateArgs :
          update_student_profile(name, updates)
    \/ \E name \in Students : \E rating \in Ratings :
          record_learning_session(name, DemoTopic, DemoAgent, rating, DemoNotes)
    \/ \E name \in Students : \E cat \in SkillCategories : \E rating \in Ratings :
          add_student_accomplishment(name, DemoAchievement, cat, rating)
    \/ \E name \in Students : \E steps \in StepLists :
          create_lesson_plan(name, DemoObjective, steps, DemoSkills,
                             DemoPlanNotes)
    \/ \E name \in Students : get_current_lesson_plan(name)
    \/ \E name \in Students : get_current_lesson_plan_tool(name)
    \/ \E plan_id \in 1..(Len(lesson_plans) + 1) : \E status \in StatusArgs :
          update_lesson_plan_status(plan_id, status)
    \/ \E name \in Students : get_parent_dashboard(name)
    \/ finalize_connection
    \/ Tick

\* the profile operations alone, on a wider set of update dicts
ProfileNext ==
    \/ \E name \in Students : get_student_profile(name)
    \/ \E name \in Students : \E updates \in UpdateArgs \cup MoreUpdateArgs :
          update_student_learning_data(name, updates)
    \/ finalize_connection
    \/ Tick

\* the lesson-plan operations alone, for longer runs of them
PlanNext ==
    \/ \E name \in Students :
          create_lesson_plan(name, DemoObjective, DemoSteps, DemoSkills,
                             DemoPlanNotes)
    \/ \E name \in Students : get_current_lesson_plan(name)
    \/ \E plan_id \in 1..(Len(lesson_plans) + 1) : \E status \in StatusArgs :
          update_lesson_plan_status(plan_id, status)
    \/ Tick

----------------------------------------------------------------------------
(* config.py: the lookup tables and the three lookups *)

READING_LEVELS ==
    [level \in {"Pre-Reader", "Beginning Reader", "Early Reader", "Developing Reader"} |->
        CASE level = "Pre-Reader" ->
                [age_range |-> "3-4 years",
                 skills |-> <<"letter recognition", "phonemic awareness", "print concepts">>,
                 sight_words |-> <<"I", "me", "my", "you", "the", "a">>]
          [] level = "Beginning Reader" ->
                [age_range |-> "4-5 years",
                 skills |-> <<"letter sounds", "simple words", "basic phonics">>,
                 sight_words |-> <<"and", "to", "said", "you", "of", "we", "my",
                                   "be", "have", "from">>]
          [] level = "Early Reader" ->
                [age_range |-> "5-6 years",
                 skills |-> <<"word families", "simple sentences", "reading fluency">>,
                 sight_words |-> <<"they", "know", "want", "been", "good", "much",
                                   "some", "time", "very", "when">>]
          [] OTHER ->
                [age_range |-> "6-7 years",
                 skills |-> <<"complex words", "reading comprehension", "story structure">>,
                 sight_words |-> <<"would", "there", "each", "which", "their",
                                   "called", "first", "water", "after", "back">>]]

PHONICS_SEQUENCE ==
    <<"m", "s", "t", "a", "n", "p", "i", "c", "k", "e", "r", "d",
      "h", "u", "l", "f", "b", "j", "o", "g", "w", "v", "x", "y", "z", "q",
      "bl", "br", "cl", "cr", "dr", "fl", "fr", "gl", "gr", "pl", "pr", "sl",
      "sm", "sn", "sp", "st", "sw", "tr",
      "ai", "ay", "ea", "ee", "ey", "ie", "oa", "oe", "oo", "ou", "ow", "ue", "ui">>

\* an optional value (None or a value) is a sequence of length 0 or 1
CHILD_PROFILES ==
    [name \in {"Emma", "Liam", "Sophia"} |->
        CASE name = "Emma" ->
                [age |-> 4, level |-> "Beginning Reader",
                 interests |-> <<"animals", "stories", "colors">>,
                 learning_style |-> "visual",
                 progress |-> [words_learned |-> 45, books_completed |-> 8,
                               current_phonics |-> "b",
                               last_session |-> <<"2024-01-15">>]]
          [] name = "Liam" ->
                [age |-> 5, level |-> "Early Reader",
                 interests |-> <<"dinosaurs", "cars", "adventure">>,
                 learning_style |-> "kinesthetic",
                 progress |-> [words_learned |-> 78, books_completed |-> 15,
                               current_phonics |-> "tr",
                               last_session |-> <<"2024-01-16">>]]
          [] OTHER ->
                [age |-> 6, level |-> "Developing Reader",
                 interests |-> <<"fairy tales", "friendship", "art">>,
                 learning_style |-> "auditory",
                 progress |-> [words_learned |-> 120, books_completed |-> 22,
                               current_phonics |-> "oa",
                               last_session |-> <<"2024-01-17">>]]]

\* dict.get(key, default)
Lookup(table, key, default) ==
    IF key \in DOMAIN table THEN table[key] ELSE default

\* An outcome of a lookup: the value returned, or an exception raised
Returned(x) == [raised |-> FALSE, value |-> x]
Raised(e) == [raised |-> TRUE, value |-> e]

get_child_profile(name) ==
    Returned(Lookup(CHILD_PROFILES, name,
        [age |-> 4, level |-> "Beginning Reader",
         interests |-> <<"learning", "stories">>,
         learning_style |-> "visual",
         progress |-> [words_learned |-> 0, books_completed |-> 0,
                       current_phonics |-> "m", last_session |-> <<>>]]))

\* variant: indexes READING_LEVELS[level], a KeyError on an unknown level
get_appropriate_sight_words_indexing(level) ==
    IF level \in DOMAIN READING_LEVELS
    THEN Returned(READING_LEVELS[level].sight_words)
    ELSE Raised("KeyError")

get_appropriate_sight_words(level) ==
    LET level_data == Lookup(READING_LEVELS, level, READING_LEVELS["Beginning Reader"])
    IN Returned(level_data.sight_words)

\* list.index(x), counting from 0; -1 stands for the ValueError it raises
ListIndex(list, x) ==
    IF \E i \in DOMAIN list : list[i] = x
    THEN (CHOOSE i \in DOMAIN list :
              list[i] = x /\ \A j \in DOMAIN list : list[j] = x => i <= j) - 1
    ELSE -1

\* list[k], counting from 0
At(list, k) == list[k + 1]

\* a variant whose bound is one short: it stops at the last sound but one
get_next_phonics_sound_stopping_early(current_sound) ==
    LET current_index == ListIndex(PHONICS_SEQUENCE, current_sound) IN
    IF current_index = -1
    THEN Returned(At(PHONICS_SEQUENCE, 0))
    ELSE IF current_index < Len(PHONICS_SEQUENCE) - 2
    THEN Returned(At(PHONICS_SEQUENCE, current_index + 1))
    ELSE Returned(current_sound)

\* a variant that starts over after the last sound
get_next_phonics_sound_wrapping(current_sound) ==
    LET current_index == ListIndex(PHONICS_SEQUENCE, current_sound) IN
    IF current_index = -1
    THEN Returned(At(PHONICS_SEQUENCE, 0))
    ELSE Returned(At(PHONICS_SEQUENCE,
                     (current_index + 1) % Len(PHONICS_SEQUENCE)))

get_next_phonics_sound(current_sound) ==
    LET current_index == ListIndex(PHONICS_SEQUENCE, current_sound) IN
    IF current_index = -1
    THEN Returned(At(PHONICS_SEQUENCE, 0))
    ELSE IF current_index < Len(PHONICS_SEQUENCE) - 1
    THEN Returned(At(PHONICS_SEQUENCE, current_index + 1))
    ELSE Returned(current_sound)

\* the keys the lookups are applied to: every key of the tables and some
\* that are in none
NameArgs == DOMAIN CHILD_PROFILES \cup {"Noah", "emma", ""}
LevelArgs == DOMAIN READING_LEVELS \cup {"Advanced", "beginner", ""}
SoundArgs == {PHONICS_SEQUENCE[i] : i \in DOMAIN PHONICS_SEQUENCE} \cup {"th", "B", ""}

NoLookup == [called |-> FALSE, arg |-> "", out |-> Returned(<<>>)]

CfgInit ==
    /\ child_profile = NoLookup
    /\ sight_words = NoLookup
    /\ next_sound = NoLookup
    /\ walk = <<>>

LookupChildProfile(name) ==
    /\ child_profile' = [called |-> TRUE, arg |-> name, out |-> get_child_profile(name)]
    /\ UNCHANGED <<sight_words, next_sound, walk>>
    /\ CfgFrame

LookupSightWords(level) ==
    /\ sight_words' = [called |-> TRUE, arg |-> level,
                       out |-> get_appropriate_sight_words(level)]
    /\ UNCHANGED <<child_profile, next_sound, walk>>
    /\ CfgFrame

LookupNextSound(sound) ==
    /\ next_sound' = [called |-> TRUE, arg |-> sound,
                      out |-> get_next_phonics_sound(sound)]
    /\ UNCHANGED <<child_profile, sight_words, walk>>
    /\ CfgFrame

CfgNext ==
    \/ \E name \in NameArgs : LookupChildProfile(name)
    \/ \E level \in LevelArgs : LookupSightWords(level)
    \/ \E sound \in SoundArgs : LookupNextSound(sound)

\* a practice run: get_next_phonics_sound applied to its own last result
PracticeInit ==
    /\ child_profile = NoLookup
    /\ sight_words = NoLookup
    /\ next_sound = NoLookup
    /\ walk \in {<<sound>> : sound \in SoundArgs}

practice_next_sound ==
    /\ Len(walk) <= Len(PHONICS_SEQUENCE) + ExtraSteps
    /\ LET current_sound == walk[Len(walk)]
           out == get_next_phonics_sound(current_sound) IN
         /\ next_sound' = [called |-> TRUE, arg |-> current_sound, out |-> out]
         /\ walk' = Append(walk, out.value)
    /\ UNCHANGED <<child_profile, sight_words>>
    /\ CfgFrame

----------------------------------------------------------------------------
(* preschool_voice_agent.py: run_voice_example.  The main coroutine runs   *)
(* the console loop; the audio library calls audio_callback from its own   *)
(* context for as long as the input stream is open.                        *)

DefaultSampleRate == 44100
DeviceSampleRate == 48000

NoError == [stage |-> "none", caught |-> FALSE]

VoiceInit ==
    /\ v_pc = "query_devices"
    /\ samplerate = 0
    /\ turns = 0
    /\ stream_open = FALSE
    /\ recorded_chunks = <<>>
    /\ accesses = {}
    /\ printed = ""
    /\ v_error = NoError

\* an exception outside any try block ends run_voice_example, main and the
\* process
Uncaught(stage) ==
    /\ v_pc' = "terminated"
    /\ v_error' = [stage |-> stage, caught |-> FALSE]
    /\ printed' = "Traceback"

\* the except clause of the loop body: print, then fall through to the rule
Caught(stage) ==
    /\ v_pc' = "separator"
    /\ v_error' = [stage |-> stage, caught |-> TRUE]
    /\ printed' = "Error processing voice"

query_devices ==
    /\ v_pc = "query_devices"
    /\ \E ok \in BOOLEAN :
          IF ok THEN /\ samplerate' = DeviceSampleRate
                     /\ printed' = "Audio ready"
                ELSE /\ samplerate' = DefaultSampleRate
                     /\ printed' = "Continuing anyway"
    /\ v_pc' = "prompt"
    /\ UNCHANGED <<turns, stream_open, recorded_chunks, accesses, v_error>>
    /\ VoiceFrame

\* input(...): 'quit' ends the loop, anything else starts a recording with a
\* fresh recorded_chunks list
prompt ==
    /\ v_pc = "prompt"
    /\ turns < MaxTurns
    /\ \E quit \in BOOLEAN :
          IF quit
          THEN /\ v_pc' = "returned"
               /\ printed' = "Goodbye"
               /\ UNCHANGED <<recorded_chunks, accesses>>
          ELSE /\ v_pc' = "open_stream"
               /\ printed' = "Listening"
               /\ recorded_chunks' = <<>>
               /\ accesses' = {[by |-> "main", streaming |-> stream_open]}
    /\ v_error' = NoError
    /\ UNCHANGED <<samplerate, turns, stream_open>>
    /\ VoiceFrame

\* with sd.InputStream(...): entering the block opens and starts the stream
open_stream ==
    /\ v_pc = "open_stream"
    /\ \E ok \in BOOLEAN :
          IF ok THEN /\ stream_open' = TRUE
                     /\ v_pc' = "recording"
                     /\ UNCHANGED <<v_error, printed>>
                ELSE /\ Uncaught("open_stream")
                     /\ UNCHANGED stream_open
    /\ UNCHANGED <<samplerate, turns, recorded_chunks, accesses>>
    /\ VoiceFrame

\* audio_callback, called by the audio library while the stream is open
audio_callback ==
    /\ stream_open
    /\ Len(recorded_chunks) < MaxChunks
    /\ recorded_chunks' = Append(recorded_chunks, "chunk")
    /\ accesses' = accesses \cup {[by |-> "callback", streaming |-> stream_open]}
    /\ UNCHANGED <<v_pc, samplerate, turns, stream_open, printed, v_error>>
    /\ VoiceFrame

\* variant: the block is left with the stream still running
stop_recording_stream_running ==
    /\ v_pc = "recording"
    /\ v_pc' = "check"
    /\ UNCHANGED <<samplerate, turns, stream_open, recorded_chunks, accesses,
                   printed, v_error>>
    /\ VoiceFrame

\* input() returns and the with block is left: the stream is stopped and
\* closed, which may itself raise
stop_recording ==
    /\ v_pc = "recording"
    /\ stream_open' = FALSE
    /\ \E ok \in BOOLEAN :
          IF ok THEN /\ v_pc' = "check"
                     /\ UNCHANGED <<v_error, printed>>
                ELSE Uncaught("run_stream")
    /\ UNCHANGED <<samplerate, turns, recorded_chunks, accesses>>
    /\ VoiceFrame

\* if not recorded_chunks: ... continue
check_recording ==
    /\ v_pc = "check"
    /\ accesses' = accesses \cup {[by |-> "main", streaming |-> stream_open]}
    /\ IF recorded_chunks = <<>>
       THEN /\ printed' = "No audio recorded"
            /\ v_pc' = "prompt"
            /\ turns' = turns + 1
       ELSE /\ printed' = "Teacher is thinking"
            /\ v_pc' = "concatenate"
            /\ UNCHANGED turns
    /\ UNCHANGED <<samplerate, stream_open, recorded_chunks, v_error>>
    /\ VoiceFrame

\* VoicePipeline(...), np.concatenate(recorded_chunks), AudioInput(...)
concatenate ==
    /\ v_pc = "concatenate"
    /\ accesses' = accesses \cup {[by |-> "main", streaming |-> stream_open]}
    /\ \E ok \in BOOLEAN :
          IF ok THEN /\ v_pc' = "pipeline_run"
                     /\ UNCHANGED <<v_error, printed>>
                ELSE Uncaught("concatenate")
    /\ UNCHANGED <<samplerate, turns, stream_open, recorded_chunks>>
    /\ VoiceFrame

\* try: result = await pipeline.run(audio_input)
pipeline_run ==
    /\ v_pc = "pipeline_run"
    /\ \E ok \in BOOLEAN :
          IF ok THEN /\ v_pc' = "stream_response"
                     /\ UNCHANGED <<v_error, printed>>
                ELSE Caught("pipeline_run")
    /\ UNCHANGED <<samplerate, turns, stream_open, recorded_chunks, accesses>>
    /\ VoiceFrame

\* async for event in result.stream(): collect the audio events
stream_response ==
    /\ v_pc = "stream_response"
    /\ \E outcome \in {"audio", "silent", "error"} :
          CASE outcome = "audio" -> /\ v_pc' = "playback"
                                    /\ printed' = "Teacher is responding"
                                    /\ UNCHANGED v_error
            [] outcome = "silent" -> /\ v_pc' = "separator"
                                     /\ printed' = "No audio response generated"
                                     /\ UNCHANGED v_error
            [] OTHER -> Caught("stream_response")
    /\ UNCHANGED <<samplerate, turns, stream_open, recorded_chunks, accesses>>
    /\ VoiceFrame

\* np.concatenate(response_chunks), sd.play, sd.wait
playback ==
    /\ v_pc = "playback"
    /\ \E ok \in BOOLEAN :
          IF ok THEN /\ v_pc' = "separator"
                     /\ UNCHANGED <<v_error, printed>>
                ELSE Caught("playback")
    /\ UNCHANGED <<samplerate, turns, stream_open, recorded_chunks, accesses>>
    /\ VoiceFrame

\* print("=" * 50) and back to the top of the loop
separator ==
    /\ v_pc = "separator"
    /\ printed' = "=================================================="
    /\ v_pc' = "prompt"
    /\ turns' = turns + 1
    /\ UNCHANGED <<samplerate, stream_open, recorded_chunks, accesses, v_error>>
    /\ VoiceFrame

VoiceNext ==
    \/ query_devices
    \/ prompt
    \/ open_stream
    \/ audio_callback
    \/ stop_recording
    \/ check_recording
    \/ concatenate
    \/ pipeline_run
    \/ stream_response
    \/ playback
    \/ separator

----------------------------------------------------------------------------
(* preschool_voice_agent.py: what running the module does before main()   *)

Packages == {"numpy", "sounddevice", "agents", "pydantic", "dotenv", "database"}

KeyValues == {"unset", "empty", "set"}

MissingPackageMessage == "Missing required package"
MissingKeyMessage == "Please set your OPENAI_API_KEY"

StartInit ==
    /\ installed \in SUBSET Packages
    /\ env_key \in KeyValues
    /\ dotenv_key \in KeyValues
    /\ s_pc = "import_numpy"
    /\ s_out = {}
    /\ exit_status = -1
    /\ agents_built = FALSE
    /\ menu_shown = FALSE

\* an import statement outside the try block: an ImportError is not caught,
\* the interpreter prints the traceback and exits with status 1
ImportBare(pkg, next) ==
    /\ s_pc = "import_" \o pkg
    /\ IF pkg \in installed
       THEN /\ s_pc' = next
            /\ UNCHANGED <<s_out, exit_status>>
       ELSE /\ s_pc' = "exited"
            /\ s_out' = s_out \cup {"Traceback"}
            /\ exit_status' = 1
    /\ UNCHANGED <<installed, env_key, dotenv_key, agents_built, menu_shown>>
    /\ StartFrame

\* an import statement inside try/except ImportError: print and exit(1)
ImportGuarded(pkg, next) ==
    /\ s_pc = "import_" \o pkg
    /\ IF pkg \in installed
       THEN /\ s_pc' = next
            /\ UNCHANGED <<s_out, exit_status>>
       ELSE /\ s_pc' = "exited"
            /\ s_out' = s_out \cup {MissingPackageMessage}
            /\ exit_status' = 1
    /\ UNCHANGED <<installed, env_key, dotenv_key, agents_built, menu_shown>>
    /\ StartFrame

import_numpy == ImportBare("numpy", "import_sounddevice")
import_sounddevice == ImportBare("sounddevice", "import_agents")
import_agents == ImportGuarded("agents", "import_pydantic")
import_pydantic == ImportGuarded("pydantic", "import_dotenv")
import_dotenv == ImportGuarded("dotenv", "import_database")

\* from database import db: database.py runs db = LearningDatabase()
import_database ==
    /\ s_pc = "import_database"
    /\ IF "database" \in installed
       THEN /\ s_pc' = "load_dotenv"
            /\ init_database
            /\ UNCHANGED <<s_out, exit_status>>
       ELSE /\ s_pc' = "exited"
            /\ s_out' = s_out \cup {MissingPackageMessage}
            /\ exit_status' = 1
            /\ UNCHANGED <<student_profiles, learning_sessions, lesson_plans,
                           accomplishments, learning_analytics, schema>>
    /\ UNCHANGED <<installed, env_key, dotenv_key, agents_built, menu_shown>>
    /\ UNCHANGED <<now, calls, open_conns, tx_tables, result, call_budget,
                   cfgvars, voicevars, menuvars>>

\* load_dotenv(): a variable of the .env file is set unless the environment
\* already has it
load_dotenv ==
    /\ s_pc = "load_dotenv"
    /\ env_key' = IF env_key = "unset" /\ dotenv_key # "unset"
                  THEN dotenv_key ELSE env_key
    /\ s_pc' = "check_key"
    /\ UNCHANGED <<installed, dotenv_key, s_out, exit_status, agents_built,
                   menu_shown>>
    /\ StartFrame

\* a check that tests only for an unset variable (os.getenv(...) is None)
check_key_unset_only ==
    /\ s_pc = "check_key"
    /\ IF env_key # "unset"
       THEN /\ s_pc' = "build_agents"
            /\ UNCHANGED <<s_out, exit_status>>
       ELSE /\ s_pc' = "exited"
            /\ s_out' = s_out \cup {MissingKeyMessage}
            /\ exit_status' = 1
    /\ UNCHANGED <<installed, env_key, dotenv_key, agents_built, menu_shown>>
    /\ StartFrame

\* if not os.getenv("OPENAI_API_KEY"): print(...); exit(1)
check_key ==
    /\ s_pc = "check_key"
    /\ IF env_key = "set"
       THEN /\ s_pc' = "build_agents"
            /\ UNCHANGED <<s_out, exit_status>>
       ELSE /\ s_pc' = "exited"
            /\ s_out' = s_out \cup {MissingKeyMessage}
            /\ exit_status' = 1
    /\ UNCHANGED <<installed, env_key, dotenv_key, agents_built, menu_shown>>
    /\ StartFrame

\* the module-level Agent(...) definitions
build_agents ==
    /\ s_pc = "build_agents"
    /\ agents_built' = TRUE
    /\ s_pc' = "main"
    /\ UNCHANGED <<installed, env_key, dotenv_key, s_out, exit_status, menu_shown>>
    /\ StartFrame

\* asyncio.run(main()): the banner and the menu are printed
show_menu ==
    /\ s_pc = "main"
    /\ menu_shown' = TRUE
    /\ s_pc' = "menu"
    /\ UNCHANGED <<installed, env_key, dotenv_key, s_out, exit_status, agents_built>>
    /\ StartFrame

StartNext ==
    \/ import_numpy
    \/ import_sounddevice
    \/ import_agents
    \/ import_pydantic
    \/ import_dotenv
    \/ import_database
    \/ load_dotenv
    \/ check_key
    \/ build_agents
    \/ show_menu

----------------------------------------------------------------------------
(* The specifications.  Spec: the database object in use.  SpecConfig: the *)
(* configuration lookups applied to arbitrary keys.  SpecVoice: one run of *)
(* run_voice_example.  SpecStart: one start of the program, on any set of  *)
(* installed packages and any environment.                                 *)

\* a start on a complete installation with the key set, up to the menu
StartDone ==
    /\ installed = Packages
    /\ env_key = "set"
    /\ dotenv_key = "unset"
    /\ s_pc = "menu"
    /\ s_out = {}
    /\ exit_status = -1
    /\ agents_built = TRUE
    /\ menu_shown = TRUE

----------------------------------------------------------------------------
(* main(): the console menu *)

\* a line of console input is a sequence of characters; str.strip() removes
\* the blanks and tabs at its two ends
RECURSIVE LStrip(_)
LStrip(s) ==
    IF s # <<>> /\ Head(s) \in {" ", "\t"} THEN LStrip(Tail(s)) ELSE s

RECURSIVE RStrip(_)
RStrip(s) ==
    IF s # <<>> /\ s[Len(s)] \in {" ", "\t"}
    THEN RStrip(SubSeq(s, 1, Len(s) - 1))
    ELSE s

\* whitespace is removed at both ends and kept inside
Strip(s) == RStrip(LStrip(s))

\* str.lower() on the letters the prompts are answered with
Lower(s) ==
    LET LowerChar(c) ==
            CASE c = "Y" -> "y"
              [] c = "E" -> "e"
              [] c = "S" -> "s"
              [] c = "N" -> "n"
              [] OTHER -> c
    IN  [i \in DOMAIN s |-> LowerChar(s[i])]

NoStage == "none"

\* the await statements of main, by the branch they stand in, and the
\* coroutine each one awaits
StageOf(pc) ==
    CASE pc = "voice_1" -> "run_voice_example"
      [] pc = "text_2" -> "run_text_example"
      [] pc = "dashboard_3" -> "demo_parent_dashboard"
      [] pc = "text_4" -> "run_text_example"
      [] pc = "dashboard_4" -> "demo_parent_dashboard"
      [] pc = "voice_4" -> "run_voice_example"
      [] pc = "text_else" -> "run_text_example"
      [] OTHER -> NoStage

\* a dispatch that stops at an unrecognised choice instead of falling back
BranchRejectingInvalid(c) ==
    CASE c = <<"1">> -> "voice_1"
      [] c = <<"2">> -> "text_2"
      [] c = <<"3">> -> "dashboard_3"
      [] c = <<"4">> -> "text_4"
      [] OTHER -> "thanks"

\* the if / elif / else chain on choice
Branch(c) ==
    CASE c = <<"1">> -> "voice_1"
      [] c = <<"2">> -> "text_2"
      [] c = <<"3">> -> "dashboard_3"
      [] c = <<"4">> -> "text_4"
      [] OTHER -> "text_else"

MenuInit ==
    /\ m_pc = "input_choice"
    /\ typed = <<>>
    /\ choice = <<>>
    /\ voice_typed = <<>>
    /\ voice_choice = <<>>
    /\ running = NoStage
    /\ stage_log = <<>>
    /\ thanked = FALSE

\* choice = input(...).strip(), then the if / elif / else chain
read_choice(line) ==
    /\ m_pc = "input_choice"
    /\ typed' = line
    /\ choice' = Strip(line)
    /\ m_pc' = Branch(Strip(line))
    /\ UNCHANGED <<voice_typed, voice_choice, running, stage_log, thanked>>
    /\ MenuFrame

\* await <stage>(): main is suspended while the coroutine runs
start_stage ==
    /\ StageOf(m_pc) # NoStage
    /\ running = NoStage
    /\ running' = StageOf(m_pc)
    /\ stage_log' = Append(stage_log, [stage |-> StageOf(m_pc), ev |-> "start"])
    /\ UNCHANGED <<m_pc, typed, choice, voice_typed, voice_choice, thanked>>
    /\ MenuFrame

\* the awaited coroutine returns and main goes on with its next statement
stage_returns ==
    /\ running # NoStage
    /\ running' = NoStage
    /\ stage_log' = Append(stage_log, [stage |-> running, ev |-> "return"])
    /\ m_pc' = CASE m_pc = "text_4" -> "dashboard_4"
                  [] m_pc = "dashboard_4" -> "input_voice_choice"
                  [] OTHER -> "thanks"
    /\ UNCHANGED <<typed, choice, voice_typed, voice_choice, thanked>>
    /\ MenuFrame

\* the awaited coroutine raises: main has no try block, the exception leaves
\* main and asyncio.run, and nothing more of main runs
stage_raises ==
    /\ running # NoStage
    /\ running' = NoStage
    /\ stage_log' = Append(stage_log, [stage |-> running, ev |-> "raise"])
    /\ m_pc' = "crashed"
    /\ UNCHANGED <<typed, choice, voice_typed, voice_choice, thanked>>
    /\ MenuFrame

\* voice_choice = input(...).lower(); if voice_choice == 'y'
read_voice_choice(line) ==
    /\ m_pc = "input_voice_choice"
    /\ voice_typed' = line
    /\ voice_choice' = Lower(line)
    /\ m_pc' = IF Lower(line) = <<"y">> THEN "voice_4" ELSE "thanks"
    /\ UNCHANGED <<typed, choice, running, stage_log, thanked>>
    /\ MenuFrame

\* print("... Thank you for trying the Advanced Preschool Reading AI!")
print_thanks ==
    /\ m_pc = "thanks"
    /\ thanked' = TRUE
    /\ m_pc' = "done"
    /\ UNCHANGED <<typed, choice, voice_typed, voice_choice, running, stage_log>>
    /\ MenuFrame

\* main, with the lines typed at "Enter your choice (1, 2, 3, or 4): " and at
\* "Ready for voice mode? (y/n): "
MenuNext ==
    \/ \E line \in { <<"1">>, <<" ", "1", " ">>, <<"2">>, <<"3">>,
                      <<"\t", "3">>, <<"4">>, <<" ", "4", " ">>, <<"4", " ">>,
                      <<"5">>, <<>>, <<"1", " ", "2">>, <<"4", "4">>,
                      <<"y">> } :
          read_choice(line)
    \/ start_stage
    \/ stage_returns
    \/ stage_raises
    \/ \E line \in { <<"y">>, <<"Y">>, <<"n">>, <<" ", "y">>,
                      <<"y", "e", "s">>, <<"Y", "E", "S">>, <<>> } :
          read_voice_choice(line)
    \/ print_thanks

Init == DbInit /\ CfgInit /\ VoiceInit /\ StartDone /\ MenuInit

SpecMenu == Init /\ [][MenuNext]_vars

Spec == Init /\ [][Next]_vars

SpecConfig == Init /\ [][CfgNext]_vars

SpecVoice == Init /\ [][VoiceNext]_vars

InitProfiles ==
    /\ NewDatabase
    /\ call_budget = MaxProfileCalls
    /\ CfgInit
    /\ VoiceInit
    /\ StartDone
    /\ MenuInit

SpecProfiles == InitProfiles /\ [][ProfileNext]_vars

InitPhonics == DbInit /\ PracticeInit /\ VoiceInit /\ StartDone /\ MenuInit

SpecPhonics == InitPhonics /\ [][practice_next_sound]_vars

InitPlans ==
    /\ NewDatabase
    /\ call_budget = MaxPlanCalls
    /\ CfgInit
    /\ VoiceInit
    /\ StartDone
    /\ MenuInit

SpecPlans == InitPlans /\ [][PlanNext]_vars

\* the database file a start of the program finds: none, or the file an
\* earlier run left, here with a row in each table
DbBeforeStart ==
    /\ now = 0
    /\ calls = 0
    /\ call_budget = MaxCalls
    /\ open_conns = 0
    /\ tx_tables = {}
    /\ result = [op |-> "none", student |-> "", raised |-> FALSE, value |-> <<>>]
    /\ \/ /\ schema = {}
          /\ student_profiles = <<>>
          /\ learning_sessions = <<>>
          /\ lesson_plans = <<>>
          /\ accomplishments = <<>>
          /\ learning_analytics = <<>>
       \/ /\ schema = TableNames
          /\ student_profiles = <<DefaultProfileRow(<<>>, "Emma", 0)>>
          /\ learning_sessions =
                <<[id |-> 1, student_name |-> "Emma", lesson_topic |-> DemoTopic,
                   agent_used |-> DemoAgent, conversation_summary |-> DemoNotes,
                   learning_effectiveness |-> 3, notes |-> "",
                   session_date |-> 0]>>
          /\ lesson_plans =
                <<[id |-> 1, student_name |-> "Emma",
                   learning_objective |-> DemoObjective,
                   lesson_steps |-> json_dumps(PyList(DemoSteps)),
                   target_skills |-> json_dumps(PyList(DemoSkills)),
                   personalization_notes |-> DemoPlanNotes,
                   created_at |-> 0, status |-> "pending"]>>
          /\ accomplishments =
                <<[id |-> 1, student_name |-> "Emma",
                   achievement |-> DemoAchievement, skill_category |-> "alphabet",
                   date_achieved |-> 0, confidence_level |-> 3]>>
          /\ learning_analytics =
                AnalyticsAfterUpdate(<<>>, "Emma",
                    [preferred_teaching_style |-> PyStr(<<"songs">>)], 0)

InitStart == DbBeforeStart /\ CfgInit /\ VoiceInit /\ StartInit /\ MenuInit

SpecStart == InitStart /\ [][StartNext]_vars

----------------------------------------------------------------------------
(* Properties of the LearningDatabase operations, checked under Spec *)

\* C1: in every reachable state student_profiles holds at most one row for
\* any given student name.
UniqueStudentName ==
    \A i \in DOMAIN student_profiles : \A j \in DOMAIN student_profiles :
        student_profiles[i].name = student_profiles[j].name => i = j

\* both students have a profile and get_student_profile was called again
\* for one of them (the call found the row and inserted nothing)
UniqueStudentNameWitness ==
    /\ Len(student_profiles) = 2
    /\ result.op = "get_student_profile"
    /\ tx_tables = {}

\* C2: get_student_profile returns 'interests' as a list of strings on
\* every call, the call that creates the default profile included.
InterestsIsList ==
    (result.op = "get_student_profile" /\ ~result.raised)
        => result.value.interests.t = "list"

\* C3: the status of every stored lesson plan is one of pending,
\* in_progress, completed, whatever arguments the calls were made with.
LessonStatusValid ==
    \A i \in DOMAIN lesson_plans :
        lesson_plans[i].status \in {"pending", "in_progress", "completed"}

\* C4: every stored rating lies in 1..5: the learning_effectiveness of every
\* session row and the confidence_level of every accomplishment row.
RatingsInScale ==
    /\ \A i \in DOMAIN learning_sessions :
          learning_sessions[i].learning_effectiveness \in 1..5
    /\ \A i \in DOMAIN accomplishments :
          accomplishments[i].confidence_level \in 1..5

\* C6 as stated: every committed transaction of every operation modifies
\* rows of at most one table.
OneTablePerTransaction == Cardinality(tx_tables) <= 1

\* C6 as amended: a transaction modifies rows of more than one table only in
\* update_student_profile, and then exactly student_profiles and
\* learning_analytics; every other operation writes at most one table.
OneTableExceptProfileUpdate ==
    \/ Cardinality(tx_tables) <= 1
    \/ /\ result.op = "update_student_profile"
       /\ tx_tables = {"student_profiles", "learning_analytics"}

\* update_student_profile committed a change to both tables at once
TwoTableUpdateWitness ==
    /\ result.op = "update_student_profile"
    /\ ~result.raised
    /\ tx_tables = {"student_profiles", "learning_analytics"}

\* C7: no connection is open while no LearningDatabase call is in progress:
\* every operation closes what it opened on every path out of it.
NoConnectionLeftOpen == open_conns = 0

----------------------------------------------------------------------------
(* Properties of the configuration lookups, checked under SpecConfig *)

\* C5: on an unknown key none of the three lookups raises: get_child_profile
\* returns the default profile (age 4, level Beginning Reader, current
\* phonics m), get_appropriate_sight_words returns the Beginning Reader
\* list, get_next_phonics_sound returns the first sound of the sequence.
UnknownKeysFallBack ==
    /\ (child_profile.called /\ child_profile.arg \notin DOMAIN CHILD_PROFILES)
          => /\ ~child_profile.out.raised
             /\ child_profile.out.value.age = 4
             /\ child_profile.out.value.level = "Beginning Reader"
             /\ child_profile.out.value.progress.current_phonics = "m"
    /\ (sight_words.called /\ sight_words.arg \notin DOMAIN READING_LEVELS)
          => /\ ~sight_words.out.raised
             /\ sight_words.out.value =
                   <<"and", "to", "said", "you", "of", "we", "my", "be", "have", "from">>
    /\ (next_sound.called
        /\ \A i \in DOMAIN PHONICS_SEQUENCE : PHONICS_SEQUENCE[i] # next_sound.arg)
          => /\ ~next_sound.out.raised
             /\ next_sound.out.value = "m"

\* each of the three lookups has been applied to a key its table lacks
UnknownKeysWitness ==
    /\ child_profile.called /\ child_profile.arg = "Noah"
    /\ sight_words.called /\ sight_words.arg = "Advanced"
    /\ next_sound.called /\ next_sound.arg = "th"

----------------------------------------------------------------------------
(* Properties of run_voice_example, checked under SpecVoice *)

\* C8 as stated: no mutable object of run_voice_example, recorded_chunks in
\* particular, is accessed both by the audio callback context and by the
\* main console loop.
BufferNotShared ==
    ~(\E a \in accesses : \E b \in accesses : a.by = "main" /\ b.by = "callback")

\* C8 as amended: recorded_chunks is accessed by both contexts but never at
\* the same time: the callback touches it only while the input stream is
\* open, the main loop only while the stream is closed.
BufferNeverAccessedConcurrently ==
    \A a \in accesses :
        /\ a.by = "callback" => a.streaming
        /\ a.by = "main" => ~a.streaming

\* the callback has filled the buffer and the main loop has read it back
BufferHandedOverWitness ==
    /\ v_pc = "pipeline_run"
    /\ Len(recorded_chunks) = MaxChunks
    /\ [by |-> "callback", streaming |-> TRUE] \in accesses
    /\ [by |-> "main", streaming |-> FALSE] \in accesses

\* C9: an exception raised in a pass of the loop by audio capture (opening
\* or running the input stream, concatenating the recording), by the
\* pipeline run, by streaming the response or by playback is caught and
\* printed, and the loop goes on to the next prompt instead of ending the
\* program.
VoiceErrorsCaught ==
    v_error.stage # "none"
        => /\ v_error.caught
           /\ v_pc # "terminated"
           /\ printed \in {"Error processing voice",
                           "=================================================="}

----------------------------------------------------------------------------
(* Properties of module start-up, checked under SpecStart *)

\* C10: if any imported package is missing, the process prints the 'Missing
\* required package' message and exits with status 1 before any agent is
\* constructed or the menu is shown.
MissingPackageReported ==
    installed # Packages
        => /\ ~agents_built
           /\ ~menu_shown
           /\ s_pc \notin {"load_dotenv", "check_key", "build_agents", "main", "menu"}
           /\ s_pc = "exited"
                 => (MissingPackageMessage \in s_out /\ exit_status = 1)

----------------------------------------------------------------------------
\* C11: when OPENAI_API_KEY is unset or empty after the .env file was loaded,
\* the process exits with status 1 and the key message, with no agent
\* constructed and no menu shown; agents are constructed and the menu is
\* shown only with a non-empty key, and a start that has all packages and a
\* non-empty key never exits.
KeyAfterDotenv ==
    IF s_pc \in {"import_numpy", "import_sounddevice", "import_agents",
                 "import_pydantic", "import_dotenv", "import_database",
                 "load_dotenv"}
         /\ env_key = "unset" /\ dotenv_key # "unset"
    THEN dotenv_key ELSE env_key

MissingKeyStopsStartup ==
    /\ (s_pc \in {"build_agents", "main", "menu"} \/ agents_built \/ menu_shown)
          => env_key = "set"
    /\ (s_pc = "exited" /\ installed = Packages)
          => /\ env_key \in {"unset", "empty"}
             /\ exit_status = 1
             /\ MissingKeyMessage \in s_out
             /\ ~agents_built
             /\ ~menu_shown
    /\ (s_pc = "exited" /\ KeyAfterDotenv = "set") => installed # Packages

MissingKeyWitness ==
    /\ s_pc = "exited"
    /\ installed = Packages
    /\ env_key = "empty"
    /\ dotenv_key = "set"
    /\ exit_status = 1

----------------------------------------------------------------------------
\* C12: constructing LearningDatabase leaves the five tables existing, and
\* on a file that already has them it leaves every row of every table as it
\* was; on a new file the five tables are created empty.
Tables ==
    <<student_profiles, learning_sessions, lesson_plans, accomplishments,
      learning_analytics>>

ConstructionKeepsRows ==
    /\ [](s_pc \in {"load_dotenv", "check_key", "build_agents", "main", "menu"}
             => schema = TableNames)
    /\ [][(s_pc = "import_database" /\ s_pc' = "load_dotenv")
             => IF schema = TableNames THEN UNCHANGED Tables
                ELSE Tables' = <<<<>>, <<>>, <<>>, <<>>, <<>>>>]_vars
    /\ [][schema \subseteq schema' /\ (schema' # schema => schema = {})]_vars

ConstructionOnExistingFileWitness ==
    /\ s_pc = "load_dotenv"
    /\ schema = TableNames
    /\ Len(student_profiles) = 1
    /\ Len(learning_sessions) = 1
    /\ Len(lesson_plans) = 1
    /\ Len(accomplishments) = 1
    /\ Len(learning_analytics) = 1

----------------------------------------------------------------------------
\* C13: add_learning_session, add_accomplishment and create_lesson_plan
\* called with a student name that has no student_profiles row do not raise,
\* append exactly one row, carrying that name, to their own table, and leave
\* student_profiles and the three other tables unchanged.
ChildTable(op) ==
    CASE op = "add_learning_session" -> 2
      [] op = "add_accomplishment" -> 4
      [] op = "create_lesson_plan" -> 3

InsertsWithoutProfile ==
    [][(/\ calls' = calls + 1
        /\ result'.op \in {"add_learning_session", "add_accomplishment",
                           "create_lesson_plan"}
        /\ ProfileRows(student_profiles, result'.student) = <<>>)
          => /\ ~result'.raised
             /\ \A k \in 1..5 :
                  IF k = ChildTable(result'.op)
                  THEN /\ Len(Tables'[k]) = Len(Tables[k]) + 1
                       /\ SubSeq(Tables'[k], 1, Len(Tables[k])) = Tables[k]
                       /\ Tables'[k][Len(Tables'[k])].student_name = result'.student
                  ELSE Tables'[k] = Tables[k]]_vars

InsertWithoutProfileWitness ==
    /\ result.op = "create_lesson_plan"
    /\ ~result.raised
    /\ student_profiles = <<>>
    /\ Len(lesson_plans) = 1
    /\ Len(learning_sessions) = 1
    /\ Len(accomplishments) = 1

----------------------------------------------------------------------------
\* C14: a get_current_lesson_plan(student) that directly follows a
\* create_lesson_plan(student, objective, steps, skills, notes) returns a plan
\* whose lesson_steps and target_skills are the lists given, element for
\* element, with the objective and the notes given and status 'pending'.
CreateThenGetRoundTrip ==
    [][(/\ result.op = "create_lesson_plan"
        /\ ~result.raised
        /\ calls' = calls + 1
        /\ result'.op = "get_current_lesson_plan"
        /\ result'.student = result.student)
          => /\ result'.value # PyNone
             /\ result'.value.lesson_steps = PyList(result.args.lesson_steps)
             /\ result'.value.target_skills = PyList(result.args.target_skills)
             /\ result'.value.learning_objective = result.args.learning_objective
             /\ result'.value.personalization_notes
                   = result.args.personalization_notes
             /\ result'.value.status = "pending"]_vars

----------------------------------------------------------------------------
\* C15: the get_current_lesson_plan tool never raises, never returns None and
\* never writes to a table: with an active plan stored for the student it
\* returns the dict of one of that student's active plans, otherwise the
\* fixed default plan with its message naming the student.
ToolReturnsPlanOrDefault ==
    /\ [](result.op = "get_current_lesson_plan_tool"
            => /\ ~result.raised
               /\ result.value # PyNone
               /\ tx_tables = {}
               /\ IF ActivePlans(result.student) = <<>>
                  THEN /\ DOMAIN result.value
                            = {"message", "learning_objective", "lesson_steps",
                               "target_skills", "personalization_notes"}
                       /\ result.value.message
                            = <<"No active lesson plan found for ", result.student>>
                       /\ result.value.learning_objective
                            = "Alphabet recognition and letter sounds"
                       /\ result.value.lesson_steps
                            = PyList(<<"Assess current knowledge",
                                       "Introduce new letters", "Practice sounds",
                                       "Review and reinforce">>)
                  ELSE \E i \in DOMAIN lesson_plans :
                          /\ lesson_plans[i].student_name = result.student
                          /\ lesson_plans[i].status \in {"pending", "in_progress"}
                          /\ result.value = PlanDict(lesson_plans[i]))
    /\ [][(calls' = calls + 1 /\ result'.op = "get_current_lesson_plan_tool")
            => UNCHANGED Tables]_vars

ToolDefaultPlanWitness ==
    /\ result.op = "get_current_lesson_plan_tool"
    /\ result.student = "Zoe"
    /\ student_profiles = <<>>
    /\ \E i \in DOMAIN lesson_plans : lesson_plans[i].status = "completed"
    /\ "message" \in DOMAIN result.value

----------------------------------------------------------------------------
\* C16: get_student_profile(name) appends the default row (age 4, learning
\* style 'visual', level 'beginner', interests ['learning', 'stories']) to
\* student_profiles exactly when the name has no row; when it has one the
\* call changes no table; either way the name has exactly one row afterwards
\* and the four other tables are unchanged.
ProfileCreatedExactlyWhenMissing ==
    [][(calls' = calls + 1 /\ result'.op = "get_student_profile")
          => /\ IF ProfileRows(student_profiles, result'.student) = <<>>
                THEN /\ Len(student_profiles') = Len(student_profiles) + 1
                     /\ SubSeq(student_profiles', 1, Len(student_profiles))
                           = student_profiles
                     /\ LET row == student_profiles'[Len(student_profiles')] IN
                          /\ row.name = result'.student
                          /\ row.age = PyInt(4)
                          /\ row.learning_style = PyStr(<<"visual">>)
                          /\ row.current_level = PyStr(<<"beginner">>)
                          /\ json_loads(row.interests)
                                = PyList(<<"learning", "stories">>)
                ELSE UNCHANGED student_profiles
             /\ UNCHANGED <<learning_sessions, lesson_plans, accomplishments,
                            learning_analytics>>
             /\ Len(ProfileRows(student_profiles', result'.student)) = 1]_vars

RepeatedProfileReadWitness ==
    /\ result.op = "get_student_profile"
    /\ calls = 3
    /\ tx_tables = {}
    /\ Len(student_profiles) = 1
    /\ student_profiles[1].name = result.student
    /\ accomplishments # <<>>

----------------------------------------------------------------------------
\* C17: get_current_lesson_plan(student) returns None exactly when the
\* student has no plan with status pending or in_progress, and otherwise
\* returns, of that student's plans with such a status, the one created
\* last, also when several of them were created within one clock second.
LastCreated(rows) ==
    CHOOSE i \in DOMAIN rows : \A j \in DOMAIN rows : rows[j].id <= rows[i].id

CurrentPlanIsLastCreated ==
    result.op = "get_current_lesson_plan"
       => LET rows == ActivePlans(result.student) IN
          IF rows = <<>> THEN result.value = PyNone
          ELSE /\ result.value # PyNone
               /\ result.value.student_name = result.student
               /\ result.value.id = rows[LastCreated(rows)].id

----------------------------------------------------------------------------
\* C18: for a student with a completed plan, get_current_lesson_plan never
\* returns a completed plan and returns the student's most recently created
\* pending or in_progress plan if there is one (None otherwise);
\* update_lesson_plan_status changes only the status column of the row with
\* the given id and changes nothing, without raising, when no row has it.
CompletedPlanGivesWayToNext ==
    /\ [](result.op = "get_current_lesson_plan"
            /\ (\E i \in DOMAIN lesson_plans :
                   /\ lesson_plans[i].student_name = result.student
                   /\ lesson_plans[i].status = "completed")
            => LET rows == ActivePlans(result.student) IN
               IF rows = <<>> THEN result.value = PyNone
               ELSE /\ result.value # PyNone
                    /\ lesson_plans[result.value.id].status # "completed"
                    /\ result.value.id = rows[LastCreated(rows)].id)
    /\ [][(calls' = calls + 1 /\ result'.op = "update_lesson_plan_status")
            => /\ ~result'.raised
               /\ DOMAIN lesson_plans' = DOMAIN lesson_plans
               /\ \A i \in DOMAIN lesson_plans :
                    lesson_plans'[i] =
                       IF lesson_plans[i].id = result'.args.plan_id
                       THEN [lesson_plans[i] EXCEPT !.status = result'.args.status]
                       ELSE lesson_plans[i]
               /\ UNCHANGED <<student_profiles, learning_sessions,
                              accomplishments, learning_analytics>>]_vars

----------------------------------------------------------------------------
\* C19: no sound occurs twice in PHONICS_SEQUENCE; get_next_phonics_sound
\* applied to the sound at a position before the last gives the sound at the
\* next position, and applied to the last sound gives that sound; so a run
\* from the first sound goes through every sound once, in sequence order.
NextSoundFollowsSequence ==
    /\ \A i, j \in DOMAIN PHONICS_SEQUENCE :
          PHONICS_SEQUENCE[i] = PHONICS_SEQUENCE[j] => i = j
    /\ \A k \in 1..(Len(walk) - 1) : \A i \in DOMAIN PHONICS_SEQUENCE :
          walk[k] = PHONICS_SEQUENCE[i]
             => walk[k + 1] = IF i < Len(PHONICS_SEQUENCE)
                              THEN PHONICS_SEQUENCE[i + 1]
                              ELSE PHONICS_SEQUENCE[i]
    /\ walk[1] = PHONICS_SEQUENCE[1]
          => \A k \in DOMAIN walk :
                k <= Len(PHONICS_SEQUENCE) => walk[k] = PHONICS_SEQUENCE[k]

WholeSequenceVisitedWitness ==
    /\ walk[1] = "m"
    /\ Len(walk) = Len(PHONICS_SEQUENCE)
    /\ walk[Len(walk)] = "ui"

\* C20: from any string, get_next_phonics_sound applied repeatedly is at the
\* last sound of PHONICS_SEQUENCE after at most Len(PHONICS_SEQUENCE)
\* applications and stays there; the last sound is the only string it maps
\* to itself; and from one sound of the sequence to the next result the
\* position in the sequence never decreases.
RunEndsAtLastSound ==
    LET last == PHONICS_SEQUENCE[Len(PHONICS_SEQUENCE)] IN
    /\ \A k \in DOMAIN walk : k > Len(PHONICS_SEQUENCE) => walk[k] = last
    /\ \A k \in 1..(Len(walk) - 1) : (walk[k + 1] = walk[k]) <=> (walk[k] = last)
    /\ \A k \in 1..(Len(walk) - 1) :
          ListIndex(PHONICS_SEQUENCE, walk[k]) # -1
             => ListIndex(PHONICS_SEQUENCE, walk[k])
                   <= ListIndex(PHONICS_SEQUENCE, walk[k + 1])

RunFromUnknownStringWitness ==
    /\ walk[1] = "th"
    /\ Len(walk) = Len(PHONICS_SEQUENCE) + ExtraSteps + 1
    /\ walk[Len(PHONICS_SEQUENCE)] # "ui"
    /\ walk[Len(PHONICS_SEQUENCE) + 1] = "ui"
    /\ walk[Len(walk)] = "ui"

----------------------------------------------------------------------------
\* C21: for a student that has a profile row, update_student_profile(name,
\* updates) sets exactly the columns named in updates, to the values given,
\* and leaves the row's other columns (id, name, created_at, updated_at and
\* the columns not named) and every other student's row unchanged; a
\* get_student_profile(name) that follows returns the values given for the
\* named columns; and a call none of whose keys is one of the eight known
\* keys changes no table.
IsUpdateStep ==
    /\ calls' = calls + 1
    /\ result'.op = "update_student_profile"

IsGetAfterUpdate ==
    /\ result.op = "update_student_profile"
    /\ ~result.raised
    /\ calls' = calls + 1
    /\ result'.op = "get_student_profile"
    /\ result'.student = result.student

UpdateSetsNamedColumnsOnly ==
    /\ [][(IsUpdateStep /\ ProfileRows(student_profiles, result'.student) # <<>>)
            => LET updates == result'.args IN
               /\ DOMAIN student_profiles' = DOMAIN student_profiles
               /\ \A i \in DOMAIN student_profiles :
                    LET old == student_profiles[i]
                        new == student_profiles'[i] IN
                    IF old.name # result'.student THEN new = old
                    ELSE /\ new.id = old.id
                         /\ new.name = old.name
                         /\ new.created_at = old.created_at
                         /\ new.updated_at = old.updated_at
                         /\ new.age = DictGet(updates, "age", old.age)
                         /\ new.learning_style
                               = DictGet(updates, "learning_style", old.learning_style)
                         /\ new.current_level
                               = DictGet(updates, "current_level", old.current_level)
                         /\ IF "interests" \in DOMAIN updates
                            THEN json_loads(new.interests) = updates["interests"]
                            ELSE new.interests = old.interests]_vars
    /\ [][(IsUpdateStep
             /\ (DOMAIN result'.args) \cap (ProfileKeys \cup AnalyticsKeys) = {})
            => UNCHANGED Tables]_vars
    /\ [][(IsGetAfterUpdate /\ ProfileRows(student_profiles, result.student) # <<>>)
            => \A key \in (DOMAIN result.args) \cap ProfileKeys :
                  result'.value[key] = result.args[key]]_vars

\* C21, as the code has it: an update that returns also sets updated_at to
\* the current time when it names a profile column, and stores each value
\* under the affinity of its column (a numeric text given as age becomes the
\* number, a number given as learning_style or current_level its text); an
\* update that raises changes no table.
UpdateSetsNamedColumnsAndTimestamp ==
    /\ [][(IsUpdateStep /\ ProfileRows(student_profiles, result'.student) # <<>>)
            => LET updates == result'.args IN
               IF result'.raised THEN UNCHANGED Tables
               ELSE
               /\ DOMAIN student_profiles' = DOMAIN student_profiles
               /\ \A i \in DOMAIN student_profiles :
                    LET old == student_profiles[i]
                        new == student_profiles'[i] IN
                    IF old.name # result'.student THEN new = old
                    ELSE /\ new.id = old.id
                         /\ new.name = old.name
                         /\ new.created_at = old.created_at
                         /\ new.updated_at
                               = IF HasAny(updates, ProfileKeys) THEN now
                                 ELSE old.updated_at
                         /\ new.age
                               = IF "age" \in DOMAIN updates
                                 THEN IntegerAffinity(updates["age"]) ELSE old.age
                         /\ new.learning_style
                               = IF "learning_style" \in DOMAIN updates
                                 THEN TextAffinity(updates["learning_style"])
                                 ELSE old.learning_style
                         /\ new.current_level
                               = IF "current_level" \in DOMAIN updates
                                 THEN TextAffinity(updates["current_level"])
                                 ELSE old.current_level
                         /\ IF "interests" \in DOMAIN updates
                            THEN json_loads(new.interests) = updates["interests"]
                            ELSE new.interests = old.interests]_vars
    /\ [][(IsUpdateStep
             /\ (DOMAIN result'.args) \cap (ProfileKeys \cup AnalyticsKeys) = {})
            => (~result'.raised /\ UNCHANGED Tables)]_vars
    /\ [][(IsGetAfterUpdate /\ ProfileRows(student_profiles, result.student) # <<>>)
            => LET updates == result.args
                   row == ProfileRows(student_profiles, result.student)[1] IN
               /\ UNCHANGED Tables
               /\ result'.value.name = result.student
               /\ result'.value.age = row.age
               /\ result'.value.learning_style = row.learning_style
               /\ result'.value.current_level = row.current_level
               /\ result'.value.interests = json_loads(row.interests)
               /\ "age" \in DOMAIN updates
                     => result'.value.age = IntegerAffinity(updates["age"])
               /\ "learning_style" \in DOMAIN updates
                     => result'.value.learning_style
                           = TextAffinity(updates["learning_style"])
               /\ "current_level" \in DOMAIN updates
                     => result'.value.current_level
                           = TextAffinity(updates["current_level"])
               /\ "interests" \in DOMAIN updates
                     => result'.value.interests = updates["interests"]]_vars

UpdatedProfileReadBackWitness ==
    /\ result.op = "get_student_profile"
    /\ Len(student_profiles) = 2
    /\ \E i \in DOMAIN student_profiles :
          /\ student_profiles[i].name = result.student
          /\ student_profiles[i].created_at = 0
          /\ student_profiles[i].updated_at = 1
          /\ student_profiles[i].age = PyInt(5)
          /\ student_profiles[i].learning_style = PyStr(<<"3">>)
    /\ result.value.age = PyInt(5)
    /\ result.value.learning_style = PyStr(<<"3">>)
    /\ result.value.current_level = PyStr(<<"beginner">>)

----------------------------------------------------------------------------
\* C22: after an update_student_profile(name, updates) that returned, a
\* get_student_profile(name) that follows reports, for each of age,
\* interests, learning_style and current_level that updates names, the value
\* given, whether or not the name had a profile row before the update.
UpdateIsObservable ==
    [][IsGetAfterUpdate
          => \A key \in (DOMAIN result.args) \cap ProfileKeys :
                result'.value[key] = result.args[key]]_vars

----------------------------------------------------------------------------
\* C23: learning_analytics has at most one row per student; the first
\* update_student_profile with an analytics key appends the student's row,
\* with '' and '[]' for the keys not given; a later one changes, in that row,
\* only the fields it gives and nothing else; and get_student_profile
\* reports the four analytics values of that row.
ListFields == {"effective_strategies", "challenging_areas", "motivation_triggers"}

OneAnalyticsRowPerStudent ==
    \A name \in Students : Len(RowsOf(learning_analytics, name)) <= 1

AnalyticsInserted(old_tbl, new_tbl, name, updates) ==
    /\ Len(new_tbl) = Len(old_tbl) + 1
    /\ SubSeq(new_tbl, 1, Len(old_tbl)) = old_tbl
    /\ LET row == new_tbl[Len(new_tbl)] IN
         /\ row.student_name = name
         /\ row.preferred_teaching_style
               = IF "preferred_teaching_style" \in DOMAIN updates
                 THEN TextAffinity(updates["preferred_teaching_style"])
                 ELSE PyStr(<<>>)
         /\ \A key \in ListFields :
               json_loads(row[key])
                  = IF key \in DOMAIN updates THEN updates[key] ELSE PyList(<<>>)

AnalyticsReported ==
    [][(calls' = calls + 1 /\ result'.op = "get_student_profile")
          => LET rows == RowsOf(learning_analytics, result'.student) IN
             IF rows = <<>>
             THEN (DOMAIN result'.value) \cap AnalyticsKeys = {}
             ELSE /\ result'.value.preferred_teaching_style
                        = rows[1].preferred_teaching_style
                  /\ \A key \in ListFields :
                        result'.value[key] = json_loads(rows[1][key])]_vars

AnalyticsRowUpdatedInPlace ==
    /\ []OneAnalyticsRowPerStudent
    /\ [][(IsUpdateStep /\ HasAny(result'.args, AnalyticsKeys))
            => LET updates == result'.args
                   name == result'.student IN
               IF RowsOf(learning_analytics, name) = <<>>
               THEN AnalyticsInserted(learning_analytics, learning_analytics',
                                      name, updates)
               ELSE /\ DOMAIN learning_analytics' = DOMAIN learning_analytics
                    /\ \A i \in DOMAIN learning_analytics :
                         LET old == learning_analytics[i]
                             new == learning_analytics'[i] IN
                         IF old.student_name # name THEN new = old
                         ELSE /\ \A key \in AnalyticsKeys \ DOMAIN updates :
                                    new[key] = old[key]
                              /\ new.id = old.id
                              /\ new.student_name = old.student_name
                              /\ new.updated_at = old.updated_at]_vars
    /\ AnalyticsReported

\* C23, as the code has it: a later update that returns also sets the row's
\* updated_at to the current time, and an update that raises changes no
\* table.
AnalyticsRowUpdatedAndStamped ==
    /\ []OneAnalyticsRowPerStudent
    /\ [][(IsUpdateStep /\ HasAny(result'.args, AnalyticsKeys))
            => LET updates == result'.args
                   name == result'.student IN
               IF result'.raised THEN UNCHANGED Tables
               ELSE IF RowsOf(learning_analytics, name) = <<>>
               THEN /\ AnalyticsInserted(learning_analytics, learning_analytics',
                                         name, updates)
                    /\ learning_analytics'[Len(learning_analytics')].updated_at = now
               ELSE /\ DOMAIN learning_analytics' = DOMAIN learning_analytics
                    /\ \A i \in DOMAIN learning_analytics :
                         LET old == learning_analytics[i]
                             new == learning_analytics'[i] IN
                         IF old.student_name # name THEN new = old
                         ELSE /\ \A key \in AnalyticsKeys \ DOMAIN updates :
                                    new[key] = old[key]
                              /\ "preferred_teaching_style" \in DOMAIN updates
                                    => new.preferred_teaching_style
                                          = TextAffinity(updates["preferred_teaching_style"])
                              /\ \A key \in ListFields \cap DOMAIN updates :
                                    json_loads(new[key]) = updates[key]
                              /\ new.id = old.id
                              /\ new.student_name = old.student_name
                              /\ new.updated_at = now]_vars
    /\ [][(IsUpdateStep /\ ~HasAny(result'.args, AnalyticsKeys))
            => UNCHANGED learning_analytics]_vars
    /\ AnalyticsReported

AnalyticsUpdatedInPlaceWitness ==
    /\ result.op = "get_student_profile"
    /\ Len(learning_analytics) = 1
    /\ learning_analytics[1].student_name = result.student
    /\ learning_analytics[1].updated_at = 1
    /\ result.value.preferred_teaching_style = PyStr(<<"stories">>)
    /\ result.value.effective_strategies = PyList(<<"songs">>)
    /\ result.value.challenging_areas = PyList(<<>>)

----------------------------------------------------------------------------
(* The console menu *)

\* C24: once the menu line is read, the stages main starts are the ones its
\* trimmed choice selects, in that order ('1' voice mode; '2' the text demo;
\* '3' the dashboard; '4' the text demo, the dashboard, then voice mode only
\* when the follow-up answer is y or Y; anything else the text demo); a stage
\* starts only after the one before it has returned; and the thank-you
\* message is printed only when every selected stage has started and
\* returned, and is printed whenever main runs to its end.
MenuDispatchesOnTrimmedChoice ==
    LET trimmed == Strip(typed)
        selected ==
            CASE trimmed = <<"1">> -> <<"run_voice_example">>
              [] trimmed = <<"2">> -> <<"run_text_example">>
              [] trimmed = <<"3">> -> <<"demo_parent_dashboard">>
              [] trimmed = <<"4">> ->
                    <<"run_text_example", "demo_parent_dashboard">>
                    \o (IF voice_typed \in {<<"y">>, <<"Y">>}
                        THEN <<"run_voice_example">>
                        ELSE <<>>)
              [] OTHER -> <<"run_text_example">>
        starts == SelectSeq(stage_log, LAMBDA e : e.ev = "start")
        started == [i \in DOMAIN starts |-> starts[i].stage]
    IN  /\ \A i \in DOMAIN stage_log :
              IF i % 2 = 1
              THEN /\ stage_log[i].ev = "start"
                   /\ i > 1 => stage_log[i - 1].ev = "return"
              ELSE /\ stage_log[i].ev \in {"return", "raise"}
                   /\ stage_log[i].stage = stage_log[i - 1].stage
        /\ Len(started) <= Len(selected)
        /\ started = SubSeq(selected, 1, Len(started))
        /\ (m_pc = "input_choice" => stage_log = <<>>)
        /\ thanked =>
              /\ started = selected
              /\ Len(stage_log) = 2 * Len(selected)
              /\ \A i \in DOMAIN stage_log : stage_log[i].ev # "raise"
        /\ (m_pc = "done") = thanked
        /\ (/\ m_pc = "thanks"
            /\ Len(stage_log) > 0) => stage_log[Len(stage_log)].ev = "return"

\* choice " 4 " answered "Y": the text demo, the dashboard and voice mode have
\* run one after the other and the thank-you message is out
FullDemoThenVoiceWitness ==
    /\ typed = <<" ", "4", " ">>
    /\ voice_typed = <<"Y">>
    /\ stage_log = << [stage |-> "run_text_example", ev |-> "start"],
                      [stage |-> "run_text_example", ev |-> "return"],
                      [stage |-> "demo_parent_dashboard", ev |-> "start"],
                      [stage |-> "demo_parent_dashboard", ev |-> "return"],
                      [stage |-> "run_voice_example", ev |-> "start"],
                      [stage |-> "run_voice_example", ev |-> "return"] >>
    /\ thanked

====
